---- MODULE Spec2Model ----
(***************************************************************************)
(* Model of the POAP dispenser's event minting engine (app/wen_poap.py):   *)
(* the claim-code pool of one EventABC instance under concurrent callers,  *)
(* the mint / polling-mint / collector-status operations, and the OAuth    *)
(* token cache of PoapApiWrapper.                                          *)
(*                                                                         *)
(* Spec      one event engine shared by the threads of Callers; every      *)
(*           statement of an operation that reads or writes shared state   *)
(*           or calls upstream is one step, so calls interleave between    *)
(*           statements as threads do (list.pop() itself is one step).     *)
(*           An upstream call is modelled by its answer; the token check   *)
(*           that precedes every request is CredSpec's.                    *)
(* SeqSpec   Spec with calls that never overlap (one event loop).          *)
(* WaitSpec  one caller in the polling mint, against timeouts and check    *)
(*           durations; time is the caller's own clock.                    *)
(* CredSpec  the token cache of one PoapApiWrapper against a clock.        *)
(* ClaimSpec one caller minting, against every claim-secret response.      *)
(* RouteSpec the routes of app/main.py around the engine on one event      *)
(*           loop, with the token check before each upstream call.         *)
(* StartupSpec  startup_event of app/main.py: the wrapper, then one engine *)
(*           per configured event, then requests.                          *)
(***************************************************************************)
EXTENDS Integers, Sequences, FiniteSets

\* ---------------------------------------------------------------- bounds
MaxCodes == 2          \* codes in the upstream listing at construction
MaxCalls == 2          \* operations started in one behaviour
MaxTimeout == 9        \* WaitSpec: the largest timeout tried
MaxEligDur == 1        \* WaitSpec: longest duration of one eligibility check
MaxTicks == 4          \* CredSpec: clock ticks in one behaviour
MaxRequests == 3       \* CredSpec: get/post calls in one behaviour
MaxEvents == 2         \* StartupSpec: events in config.yaml

\* ------------------------------------------------------- program constants
event_id == 71182          \* the engine's event id
other_event_id == 62477    \* another configured event id
third_event_id == 71937    \* the third event id startup accepts
SleepInterval == 4         \* time.sleep(4.0)
RouteTimeout == 90         \* the timeout the polling route passes
min_nct_contribution == 1  \* config: the least contribution that is eligible
SafetyMargin == 600        \* expires_in - 600

Callers == {"t1", "t2"}
Addrs == {"A", "B"}
Codes == 1..MaxCodes
NoCode == 0
EventIds == {event_id, other_event_id}
AppEventIds == {event_id, other_event_id, third_event_id}

\* The on-chain read of DevconEvent.is_eligible, contributions(address).call():
\* it fails, or returns the amount the address has contributed.
Contributions == {min_nct_contribution - 1, min_nct_contribution}
NoRead == [state |-> "none", amount |-> 0]
ContributionReads ==
    {[state |-> "failed", amount |-> 0]} \cup {[state |-> "read", amount |-> a] : a \in Contributions}

\* Variant: a failed read counts as no contribution.
DevconEvent_is_eligible_swallows(read) ==
    IF read.state = "failed" THEN "false"
    ELSE IF read.amount >= min_nct_contribution THEN "true"
    ELSE "false"

\* DevconEvent.is_eligible, main.py 102-111: a boolean, or the exception the
\* read raised.
DevconEvent_is_eligible(read) ==
    IF read.state = "failed" THEN "raise"
    ELSE IF read.amount >= min_nct_contribution THEN "true"
    ELSE "false"

\* Status codes upstream answers with.
ClaimStatuses == {200, 201, 500}
SecretStatuses == {200, 404}

VARIABLES
    qr_codes,      \* EventABC.qr_codes: the pool, a list of code hashes
    collected,     \* upstream: addresses holding the event's token
    call,          \* per caller: the operation in progress and its locals
    ncalls,        \* operations started so far
    handed,        \* history: how often each code was returned by pop()
    secretReqs,    \* history: claim-secret fetches sent upstream, per code
    claimReqs,     \* history: claim submissions sent upstream, per code
    succeeded,     \* history: addresses for which a mint returned success
    now,           \* datetime.now(), in seconds
    api_state,     \* PoapApiWrapper: "new", "ready", or "exited" (sys.exit)
    access_token,  \* PoapApiWrapper.access_token (0 is None)
    access_token_expiry,  \* PoapApiWrapper.access_token_expiry
    oauth_file,    \* the pickled record at oauth_token_filename
    issued,        \* upstream: how the cached token was issued
    exchanges,     \* history: requests sent to the oauth token endpoint
    requests,      \* history: get/post calls made
    ticks,         \* history: clock ticks
    last_call,     \* history: the last get/post call
    auth_answer,   \* history: the auth endpoint's answer to the last exchange
    events,        \* main.py: the registry's keys, the event ids with an engine
    service,       \* the service process: "starting", "up", "failed", "exited"
    config,        \* config.yaml: the configured event ids, in order
    upstream_event,\* upstream: what constructing each event's engine meets
    next_event,    \* startup_event: position of the loop in config
    upstream_log   \* history: requests sent upstream during construction

engineVars == <<qr_codes, collected, call, ncalls, handed, secretReqs, claimReqs, succeeded>>
credVars == <<now, api_state, access_token, access_token_expiry, oauth_file, issued, exchanges,
              requests, ticks, last_call, auth_answer>>
appVars == <<events, service, config, upstream_event, next_event, upstream_log>>
vars == <<engineVars, credVars, appVars>>

\* ------------------------------------------------------------ pure helpers

\* update_unclaimed_qr_codes: the hashes of the listing's unclaimed entries,
\* in listing order.
RECURSIVE update_unclaimed_qr_codes(_)
update_unclaimed_qr_codes(listing) ==
    IF listing = <<>> THEN <<>>
    ELSE LET qr == Head(listing)
             rest == update_unclaimed_qr_codes(Tail(listing))
         IN IF qr.claimed = FALSE THEN <<qr.qr_hash>> \o rest ELSE rest

\* Upstream listings: k codes in any order of claimed and unclaimed entries.
\* Hashes are opaque, so they are numbered with the unclaimed ones first.
ListingOf(k, f) ==
    LET unclaimed == {j \in 1..k : ~f[j]}
        hash(i) == IF ~f[i] THEN Cardinality({j \in unclaimed : j <= i})
                   ELSE Cardinality(unclaimed) + Cardinality({j \in 1..i : f[j]})
    IN [i \in 1..k |-> [qr_hash |-> hash(i), claimed |-> f[i]]]

Listings == UNION { { ListingOf(k, f) : f \in [1..k -> BOOLEAN] } : k \in 0..MaxCodes }

\* has_collected: 404 -> False, 200 -> True, anything else raises.
has_collected(status_code) ==
    IF status_code = 404 THEN "false"
    ELSE IF status_code = 200 THEN "true"
    ELSE "raise"

\* What the scan endpoint can answer for an address.
ScanAnswers(addr) == IF addr \in collected THEN {200, 500} ELSE {404, 500}

\* list.pop(): the returned element and the list left behind.
list_pop_value(l) == l[Len(l)]

\* Variant: the last element is read but not removed.
list_pop_rest_peek(l) == l

list_pop_rest(l) == SubSeq(l, 1, Len(l) - 1)

\* claim_qr_get_secret on the parsed response body: the status code is not
\* looked at; a body without the fields raises KeyError, then the two asserts.
SecretResponses ==
    { r \in [status : SecretStatuses, fields : BOOLEAN, claimed : BOOLEAN, event : EventIds] :
        /\ r.status = 200 => r.fields
        /\ ~r.fields => (~r.claimed /\ r.event = event_id) }

\* The responses whose status tells whether the body has the fields: what
\* the specifications with several callers or a clock draw from.
SpecSecretResponses == { r \in SecretResponses : r.status = 200 <=> r.fields }

\* No claim-secret response was received.
NoSecret == [status |-> 0, fields |-> FALSE, claimed |-> FALSE, event |-> 0]

\* Variant: the event id of the response is not compared with the engine's.
claim_qr_get_secret_any_event(r) ==
    IF ~r.fields THEN "KeyError"
    ELSE IF r.claimed THEN "AssertionError"
    ELSE "secret"

claim_qr_get_secret(r) ==
    IF ~r.fields THEN "KeyError"
    ELSE IF r.claimed THEN "AssertionError"
    ELSE IF r.event # event_id THEN "AssertionError"
    ELSE "secret"

\* ------------------------------------------------------------ token cache
\* Lifetimes (expires_in) the auth endpoint declares, clock steps, and expiries
\* found in a record saved by an earlier process; seconds.
Lifetimes == {300, 600, 900, 1500}
TickSteps == {300}
FileExpiries == {-300, 0, 300, 900}

NoFile == [ok |-> FALSE, token |-> 0, expiry |-> 0]
FileRecords ==
    {NoFile} \cup {[ok |-> TRUE, token |-> -1, expiry |-> e] : e \in FileExpiries}
             \cup {[ok |-> TRUE, token |-> 0, expiry |-> 900]}

NotIssued == [by |-> "none", at |-> 0, expires_in |-> 0]
NoCall == [made |-> FALSE, kind |-> "none", at |-> 0, expiry |-> 0, issued |-> NotIssued, exchanges |-> 0,
           sent |-> FALSE]

\* has_oauth_token_expired, line 72
\* Variant: a token is still used at the instant of its expiry.
has_oauth_token_expired_late(t, expiry) == t > expiry

has_oauth_token_expired(t, expiry) == t >= expiry

\* update_oauth_token, line 68: datetime.now() + timedelta(seconds=expires_in - 600)
\* Variant: no safety margin.
token_expiry_no_margin(t, expires_in) == t + expires_in

token_expiry(t, expires_in) == t + expires_in - SafetyMargin

\* The token cache untouched, for the specifications that do not run it.
CredIdle ==
    /\ now = 0
    /\ api_state = "ready"
    /\ access_token = -1
    /\ access_token_expiry = 0
    /\ oauth_file = NoFile
    /\ issued = NotIssued
    /\ exchanges = 0
    /\ requests = 0
    /\ ticks = 0
    /\ last_call = NoCall
    /\ auth_answer = "none"

\* The service up with the engine of event_id registered, for the
\* specifications that do not run startup_event.
AppIdle ==
    /\ events = {event_id}
    /\ service = "up"
    /\ config = <<event_id>>
    /\ upstream_event = [e \in AppEventIds |-> "ok"]
    /\ next_event = 2
    /\ upstream_log = <<>>

\* ------------------------------------------------------------ call records
\* What a route of main.py returns to the caller: the envelope's success, its
\* message, the other keys it carries, and the count where it carries one.
NoResponse == [success |-> "none", message |-> "none", carries |-> {}, count |-> -1]

\* No uid was asked about.
NoUid == [parses |-> FALSE, operation |-> "none", complete |-> FALSE]

Idle ==
    [op |-> "none", pc |-> "idle", addr |-> "A", timeout |-> 0, elapsed |-> 0, lastDur |-> 0,
     qr_code |-> NoCode, elig |-> "none", scan |-> 0, poolSeen |-> "none",
     secretSent |-> 0, claimSent |-> 0, claimStatus |-> 0, eligEvals |-> 0, mintCalls |-> 0,
     result |-> "none", emptyAtStart |-> FALSE, afterSuccess |-> FALSE,
     uid |-> NoUid, response |-> NoResponse, secret |-> NoSecret, read |-> NoRead]

NewCall(op, pc, addr, timeout) ==
    [Idle EXCEPT !.op = op, !.pc = pc, !.addr = addr, !.timeout = timeout,
                 !.emptyAtStart = (qr_codes = <<>>),
                 !.afterSuccess = (addr \in succeeded /\ addr \in collected)]

Init ==
    /\ \E listing \in Listings : qr_codes = update_unclaimed_qr_codes(listing)
    /\ collected \in SUBSET Addrs
    /\ call = [p \in Callers |-> Idle]
    /\ ncalls = 0
    /\ handed = [c \in Codes |-> 0]
    /\ secretReqs = [c \in Codes |-> 0]
    /\ claimReqs = [c \in Codes |-> 0]
    /\ succeeded = {}
    /\ CredIdle
    /\ AppIdle

\* ------------------------------------------------- control-flow decisions
\* Each returns the next position and, when the operation ends there, what it
\* returns or raises.
Goto(pc) == [pc |-> pc, result |-> "none"]
Done(result) == [pc |-> "done", result |-> result]

\* Variant: the eligibility test's result is not acted on.
mint_after_is_eligible_ignored(e) ==
    IF e = "raise" THEN Done("Exception") ELSE Goto("m_coll")

\* mint_poap, lines 196-203: if not self.is_eligible(to_address): return failure
mint_after_is_eligible(e) ==
    IF e = "raise" THEN Done("Exception")
    ELSE IF e = "false" THEN Done("ineligible")
    ELSE Goto("m_coll")

\* Variant: the collection test's result is not acted on.
mint_after_has_collected_ignored(h) ==
    IF h = "raise" THEN Done("Exception") ELSE Goto("m_pool")

\* mint_poap, lines 204-211: if self.has_collected(to_address): return failure
mint_after_has_collected(h) ==
    IF h = "raise" THEN Done("Exception")
    ELSE IF h = "true" THEN Done("collected")
    ELSE Goto("m_pool")

\* Variant: no test for an empty pool before the pop.
mint_after_pool_check_missing(pool) == Goto("m_pop")

\* mint_poap, lines 212-219: if not self.qr_codes: return failure
mint_after_pool_check(pool) ==
    IF pool = <<>> THEN Done("exhausted") ELSE Goto("m_pop")

\* mint_poap, lines 224-240: status code 200 is success, anything else a failure;
\* a 200 body that does not parse or lacks "id"/"queue_uid" raises.
mint_after_claim_qr(status_code, body_ok) ==
    IF status_code # 200 THEN Done("mint_failed")
    ELSE IF ~body_ok THEN Done("KeyError")
    ELSE Done("success")

\* Variant: eligibility is evaluated whatever has_collected says.
status_after_has_collected_no_shortcut(h) ==
    IF h = "raise" THEN Done("Exception") ELSE Goto("s_elig")

\* get_collector_status, lines 154-161
status_after_has_collected(h) ==
    IF h = "raise" THEN Done("Exception")
    ELSE IF h = "true" THEN Done("has_collected")
    ELSE Goto("s_elig")

status_after_is_eligible(e) ==
    IF e = "raise" THEN Done("Exception")
    ELSE IF e = "false" THEN Done("is_not_eligible")
    ELSE Done("is_eligible")

\* Variant: the deadline test looks one sleep ahead.
wait_timed_out_early(elapsed, timeout) == elapsed + SleepInterval > timeout

\* wait_to_be_eligible_and_mint_poap, line 248: time.time() > t0 + timeout
wait_timed_out(elapsed, timeout) == elapsed > timeout

\* Variant: the deadline is tested before the eligibility result is acted on.
wait_after_is_eligible_deadline_first(e, elapsed, timeout) ==
    IF e = "raise" THEN Done("Exception")
    ELSE IF wait_timed_out(elapsed, timeout) THEN Done("Timeout")
    ELSE IF e = "true" THEN Goto("m_elig")
    ELSE Goto("w_sleep")

\* wait_to_be_eligible_and_mint_poap, lines 245-250, after one is_eligible
wait_after_is_eligible(e, elapsed, timeout) ==
    IF e = "raise" THEN Done("Exception")
    ELSE IF e = "true" THEN Goto("m_elig")
    ELSE IF wait_timed_out(elapsed, timeout) THEN Done("Timeout")
    ELSE Goto("w_sleep")

\* ------------------------------------------------------------- operations
Free(p) == call[p].pc \in {"idle", "done"} /\ ncalls < MaxCalls

\* Timeouts and eligibility-check durations. Under Spec time stands still apart
\* from the sleeps (the interleaving is what Spec explores); WaitSpec runs one
\* caller against the whole range.
SpecTimeouts == {0}
SpecEligDurs == {0}
WaitTimeouts == {0, SleepInterval, MaxTimeout}
WaitEligDurs == 0..MaxEligDur
WaitCallers == {"t1"}

engineHistory == <<handed, secretReqs, claimReqs, succeeded>>

start_mint_poap(p) ==
    /\ Free(p)
    /\ \E a \in Addrs :
         call' = [call EXCEPT ![p] = [NewCall("mint", "m_elig", a, 0) EXCEPT !.mintCalls = 1]]
    /\ ncalls' = ncalls + 1
    /\ UNCHANGED <<qr_codes, collected, engineHistory, credVars, appVars>>

start_wait_to_be_eligible_and_mint_poap(p, timeouts) ==
    /\ Free(p)
    /\ \E a \in Addrs, t \in timeouts :
         call' = [call EXCEPT ![p] = NewCall("wait", "w_elig", a, t)]
    /\ ncalls' = ncalls + 1
    /\ UNCHANGED <<qr_codes, collected, engineHistory, credVars, appVars>>

start_get_collector_status(p) ==
    /\ Free(p)
    /\ \E a \in Addrs :
         call' = [call EXCEPT ![p] = NewCall("status", "s_coll", a, 0)]
    /\ ncalls' = ncalls + 1
    /\ UNCHANGED <<qr_codes, collected, engineHistory, credVars, appVars>>

\* line 196
mint_is_eligible(p) ==
    /\ call[p].pc = "m_elig"
    /\ \E r \in ContributionReads :
         LET e == DevconEvent_is_eligible(r)
             to == mint_after_is_eligible(e) IN
         call' = [call EXCEPT ![p] = [@ EXCEPT !.read = r, !.elig = e, !.eligEvals = @ + 1,
                                                !.pc = to.pc, !.result = to.result]]
    /\ UNCHANGED <<qr_codes, collected, ncalls, engineHistory, credVars, appVars>>

\* line 204
mint_has_collected(p) ==
    /\ call[p].pc = "m_coll"
    /\ \E s \in ScanAnswers(call[p].addr) :
         LET to == mint_after_has_collected(has_collected(s)) IN
         call' = [call EXCEPT ![p] = [@ EXCEPT !.scan = s, !.pc = to.pc, !.result = to.result]]
    /\ UNCHANGED <<qr_codes, collected, ncalls, engineHistory, credVars, appVars>>

\* line 212
mint_check_pool(p) ==
    /\ call[p].pc = "m_pool"
    /\ LET to == mint_after_pool_check(qr_codes) IN
       call' = [call EXCEPT ![p] = [@ EXCEPT
                    !.poolSeen = IF qr_codes = <<>> THEN "empty" ELSE "nonempty",
                    !.pc = to.pc, !.result = to.result]]
    /\ UNCHANGED <<qr_codes, collected, ncalls, engineHistory, credVars, appVars>>

\* line 220: qr_code = self.qr_codes.pop(); pop from an empty list raises IndexError
mint_pop(p) ==
    /\ call[p].pc = "m_pop"
    /\ IF qr_codes = <<>>
       THEN /\ call' = [call EXCEPT ![p] = [@ EXCEPT !.pc = "done", !.result = "IndexError"]]
            /\ UNCHANGED <<qr_codes, handed>>
       ELSE /\ call' = [call EXCEPT ![p] = [@ EXCEPT !.qr_code = list_pop_value(qr_codes),
                                                      !.pc = "m_secret"]]
            /\ qr_codes' = list_pop_rest(qr_codes)
            /\ handed' = [handed EXCEPT ![list_pop_value(qr_codes)] = @ + 1]
    /\ UNCHANGED <<collected, ncalls, secretReqs, claimReqs, succeeded, credVars, appVars>>

\* line 221: qr_secret = self.claim_qr_get_secret(qr_code)
mint_claim_qr_get_secret(p, responses) ==
    /\ call[p].pc = "m_secret"
    /\ \E r \in responses :
         LET got == claim_qr_get_secret(r) IN
         call' = [call EXCEPT ![p] = [@ EXCEPT !.secretSent = @ + 1, !.secret = r,
                     !.pc = IF got = "secret" THEN "m_claim" ELSE "done",
                     !.result = IF got = "secret" THEN "none" ELSE got]]
    /\ secretReqs' = [secretReqs EXCEPT ![call[p].qr_code] = @ + 1]
    /\ UNCHANGED <<qr_codes, collected, ncalls, handed, claimReqs, succeeded, credVars, appVars>>

\* Variant: a code whose claim failed is put back into the pool.
mint_claim_qr_requeue(p) ==
    /\ call[p].pc = "m_claim"
    /\ \E s \in ClaimStatuses, body_ok \in BOOLEAN :
         LET to == mint_after_claim_qr(s, body_ok) IN
         /\ call' = [call EXCEPT ![p] = [@ EXCEPT !.claimSent = @ + 1, !.claimStatus = s,
                                                   !.pc = to.pc, !.result = to.result]]
         /\ succeeded' = IF to.result = "success" THEN succeeded \cup {call[p].addr}
                         ELSE succeeded
         /\ qr_codes' = IF to.result = "success" THEN qr_codes
                        ELSE Append(qr_codes, call[p].qr_code)
    /\ claimReqs' = [claimReqs EXCEPT ![call[p].qr_code] = @ + 1]
    /\ UNCHANGED <<collected, ncalls, handed, secretReqs, credVars, appVars>>

\* lines 222-240: poap_response = self.claim_qr(qr_code, qr_secret, to_address)
mint_claim_qr(p) ==
    /\ call[p].pc = "m_claim"
    /\ \E s \in ClaimStatuses, body_ok \in BOOLEAN :
         LET to == mint_after_claim_qr(s, body_ok) IN
         /\ call' = [call EXCEPT ![p] = [@ EXCEPT !.claimSent = @ + 1, !.claimStatus = s,
                                                   !.pc = to.pc, !.result = to.result]]
         /\ succeeded' = IF to.result = "success" THEN succeeded \cup {call[p].addr}
                         ELSE succeeded
    /\ claimReqs' = [claimReqs EXCEPT ![call[p].qr_code] = @ + 1]
    /\ UNCHANGED <<qr_codes, collected, ncalls, handed, secretReqs, credVars, appVars>>

\* lines 245-249: one is_eligible check of the polling loop, then the deadline test
wait_is_eligible(p, durations) ==
    /\ call[p].pc = "w_elig"
    /\ \E r \in ContributionReads, d \in durations :
         LET e == DevconEvent_is_eligible(r)
             t == call[p].elapsed + d
             to == wait_after_is_eligible(e, t, call[p].timeout) IN
         call' = [call EXCEPT ![p] =
                     IF to.pc = "m_elig"
                     THEN \* break into mint_poap: the loop's clock is not read again
                          [@ EXCEPT !.elapsed = 0, !.lastDur = 0, !.timeout = 0,
                                    !.read = r, !.eligEvals = 1, !.mintCalls = @ + 1,
                                    !.pc = to.pc, !.result = to.result]
                     ELSE [@ EXCEPT !.elapsed = t, !.lastDur = d, !.read = r,
                                    !.eligEvals = @ + 1,
                                    !.pc = to.pc, !.result = to.result]]
    /\ UNCHANGED <<qr_codes, collected, ncalls, engineHistory, credVars, appVars>>

\* line 250: time.sleep(4.0)
wait_sleep(p) ==
    /\ call[p].pc = "w_sleep"
    /\ call' = [call EXCEPT ![p] = [@ EXCEPT !.elapsed = @ + SleepInterval, !.pc = "w_elig"]]
    /\ UNCHANGED <<qr_codes, collected, ncalls, engineHistory, credVars, appVars>>

\* line 155
status_has_collected(p) ==
    /\ call[p].pc = "s_coll"
    /\ \E s \in ScanAnswers(call[p].addr) :
         LET to == status_after_has_collected(has_collected(s)) IN
         call' = [call EXCEPT ![p] = [@ EXCEPT !.scan = s, !.pc = to.pc, !.result = to.result]]
    /\ UNCHANGED <<qr_codes, collected, ncalls, engineHistory, credVars, appVars>>

\* line 157
status_is_eligible(p) ==
    /\ call[p].pc = "s_elig"
    /\ \E r \in ContributionReads :
         LET e == DevconEvent_is_eligible(r)
             to == status_after_is_eligible(e) IN
         call' = [call EXCEPT ![p] = [@ EXCEPT !.read = r, !.elig = e, !.eligEvals = @ + 1,
                                                !.pc = to.pc, !.result = to.result]]
    /\ UNCHANGED <<qr_codes, collected, ncalls, engineHistory, credVars, appVars>>

\* Upstream: an address comes to hold the token (a mint is reflected, or the
\* token was collected by other means).
upstream_collect(a) ==
    /\ a \notin collected
    /\ collected' = collected \cup {a}
    /\ UNCHANGED <<qr_codes, call, ncalls, engineHistory, credVars, appVars>>

Next ==
    \/ \E p \in Callers : start_mint_poap(p)
    \/ \E p \in Callers : start_wait_to_be_eligible_and_mint_poap(p, SpecTimeouts)
    \/ \E p \in Callers : start_get_collector_status(p)
    \/ \E p \in Callers : mint_is_eligible(p)
    \/ \E p \in Callers : mint_has_collected(p)
    \/ \E p \in Callers : mint_check_pool(p)
    \/ \E p \in Callers : mint_pop(p)
    \/ \E p \in Callers : mint_claim_qr_get_secret(p, SpecSecretResponses)
    \/ \E p \in Callers : mint_claim_qr(p)
    \/ \E p \in Callers : wait_is_eligible(p, SpecEligDurs)
    \/ \E p \in Callers : wait_sleep(p)
    \/ \E p \in Callers : status_has_collected(p)
    \/ \E p \in Callers : status_is_eligible(p)
    \/ \E a \in Addrs : upstream_collect(a)

Spec == Init /\ [][Next]_vars

\* The routes of app/main.py are coroutines that call the engine without
\* awaiting: on one event loop a call runs to its end before the next starts.
NoOverlap ==
    \A p, q \in Callers :
        p # q => (call[p].pc \in {"idle", "done"} \/ call[q].pc \in {"idle", "done"})

SeqNext == Next /\ NoOverlap'

SeqSpec == Init /\ [][SeqNext]_vars

\* One caller polling, against every timeout and check duration.
WaitNext ==
    \/ \E p \in WaitCallers : start_wait_to_be_eligible_and_mint_poap(p, WaitTimeouts)
    \/ \E p \in WaitCallers : wait_is_eligible(p, WaitEligDurs)
    \/ \E p \in WaitCallers : wait_sleep(p)
    \/ \E p \in WaitCallers : mint_is_eligible(p)
    \/ \E p \in WaitCallers : mint_has_collected(p)
    \/ \E p \in WaitCallers : mint_check_pool(p)
    \/ \E p \in WaitCallers : mint_pop(p)
    \/ \E p \in WaitCallers : mint_claim_qr_get_secret(p, SpecSecretResponses)
    \/ \E p \in WaitCallers : mint_claim_qr(p)
    \/ \E a \in Addrs : upstream_collect(a)

WaitSpec == Init /\ [][WaitNext]_vars

\* One caller minting, against every claim-secret response.
ClaimCallers == {"t1"}

ClaimNext ==
    \/ \E p \in ClaimCallers : start_mint_poap(p)
    \/ \E p \in ClaimCallers : mint_is_eligible(p)
    \/ \E p \in ClaimCallers : mint_has_collected(p)
    \/ \E p \in ClaimCallers : mint_check_pool(p)
    \/ \E p \in ClaimCallers : mint_pop(p)
    \/ \E p \in ClaimCallers : mint_claim_qr_get_secret(p, SecretResponses)
    \/ \E p \in ClaimCallers : mint_claim_qr(p)
    \/ \E a \in Addrs : upstream_collect(a)

ClaimSpec == Init /\ [][ClaimNext]_vars

\* ------------------------------------------------------- PoapApiWrapper
EngineIdle ==
    /\ qr_codes = <<>>
    /\ collected = {}
    /\ call = [p \in Callers |-> Idle]
    /\ ncalls = 0
    /\ handed = [c \in Codes |-> 0]
    /\ secretReqs = [c \in Codes |-> 0]
    /\ claimReqs = [c \in Codes |-> 0]
    /\ succeeded = {}

\* Before PoapApiWrapper.__init__: the record an earlier process may have left.
CredInit ==
    /\ EngineIdle
    /\ AppIdle
    /\ auth_answer = "none"
    /\ now = 0
    /\ api_state = "new"
    /\ access_token = 0
    /\ access_token_expiry = 0
    /\ oauth_file \in FileRecords
    /\ issued = NotIssued
    /\ exchanges = 0
    /\ requests = 0
    /\ ticks = 0
    /\ last_call = NoCall

\* update_oauth_token, lines 46-69, given the auth endpoint's answer: not ok is
\* sys.exit(1); ok stores the token and its expiry and saves both to the file.
\* caller is who asked for the exchange (kept in the history only).
\* Variant: a refused exchange is reported and the caller goes on.
update_oauth_token_goes_on(ok, expires_in, caller) ==
    /\ exchanges' = exchanges + 1
    /\ auth_answer' = IF ok THEN "ok" ELSE "denied"
    /\ api_state' = "ready"
    /\ IF ~ok
       THEN UNCHANGED <<access_token, access_token_expiry, oauth_file, issued>>
       ELSE /\ access_token' = exchanges + 1
            /\ access_token_expiry' = token_expiry(now, expires_in)
            /\ oauth_file' = [ok |-> TRUE, token |-> exchanges + 1,
                              expiry |-> token_expiry(now, expires_in)]
            /\ issued' = [by |-> caller, at |-> now, expires_in |-> expires_in]

update_oauth_token(ok, expires_in, caller) ==
    /\ exchanges' = exchanges + 1
    /\ auth_answer' = IF ok THEN "ok" ELSE "denied"
    /\ IF ~ok
       THEN /\ api_state' = "exited"
            /\ UNCHANGED <<access_token, access_token_expiry, oauth_file, issued>>
       ELSE /\ api_state' = "ready"
            /\ access_token' = exchanges + 1
            /\ access_token_expiry' = token_expiry(now, expires_in)
            /\ oauth_file' = [ok |-> TRUE, token |-> exchanges + 1,
                              expiry |-> token_expiry(now, expires_in)]
            /\ issued' = [by |-> caller, at |-> now, expires_in |-> expires_in]

\* __init__, lines 39-43: load the saved record if it can be read, then exchange
\* when there is no token or it has expired.
PoapApiWrapper_init ==
    /\ api_state = "new"
    /\ LET token == IF oauth_file.ok THEN oauth_file.token ELSE 0
           expiry == IF oauth_file.ok THEN oauth_file.expiry ELSE now
       IN IF token = 0 \/ has_oauth_token_expired(now, expiry)
          THEN \E ok \in BOOLEAN, l \in Lifetimes : update_oauth_token(ok, l, "__init__")
          ELSE /\ api_state' = "ready"
               /\ access_token' = token
               /\ access_token_expiry' = expiry
               /\ issued' = [by |-> "file", at |-> 0, expires_in |-> 0]
               /\ UNCHANGED <<oauth_file, exchanges, auth_answer>>
    /\ UNCHANGED <<engineVars, appVars, now, requests, ticks, last_call>>

\* get and post, lines 90-117: exchange first when the token has expired, then
\* send the request. A failed exchange exits before the request is sent.
api_call(kind) ==
    /\ api_state = "ready"
    /\ requests < MaxRequests
    /\ requests' = requests + 1
    /\ IF has_oauth_token_expired(now, access_token_expiry)
       THEN /\ \E ok \in BOOLEAN, l \in Lifetimes : update_oauth_token(ok, l, kind)
            /\ last_call' = [made |-> TRUE, kind |-> kind, at |-> now, expiry |-> access_token_expiry,
                             issued |-> issued, exchanges |-> 1,
                             sent |-> (api_state' = "ready")]
       ELSE /\ last_call' = [made |-> TRUE, kind |-> kind, at |-> now, expiry |-> access_token_expiry,
                             issued |-> issued, exchanges |-> 0, sent |-> TRUE]
            /\ UNCHANGED <<api_state, access_token, access_token_expiry, oauth_file,
                           issued, exchanges, auth_answer>>
    /\ UNCHANGED <<engineVars, appVars, now, ticks>>

get == api_call("get")

post == api_call("post")

\* The clock advances.
tick ==
    /\ ticks < MaxTicks
    /\ \E d \in TickSteps : now' = now + d
    /\ ticks' = ticks + 1
    /\ UNCHANGED <<engineVars, appVars, api_state, access_token, access_token_expiry, oauth_file,
                   issued, exchanges, requests, last_call, auth_answer>>

CredNext ==
    \/ PoapApiWrapper_init
    \/ get
    \/ post
    \/ tick

CredSpec == CredInit /\ [][CredNext]_vars

\* ------------------------------------------------------- routes of main.py
\* The service after a startup that registered the engine of event_id: one
\* event loop, so one request at a time (the routes are coroutines that never
\* await). Requests name event_id or an event that is not configured.
RouteCallers == {"t1"}
RouteTimeouts == {RouteTimeout}
RouteExpiries == {0, 900}

\* The methods an engine object has: EventABC's, which DevconEvent inherits
\* and to which it adds none.
EventABC_methods ==
    {"is_eligible", "has_collected", "get_collector_status", "is_valid_event",
     "validate_event", "update_unclaimed_qr_codes", "claim_qr_get_secret", "claim_qr",
     "mint_poap", "wait_to_be_eligible_and_mint_poap", "get_mint_status"}

\* events[event_id].<method>(...): a name the object lacks raises AttributeError.
engine_call(method) == IF method \in EventABC_methods THEN "called" ELSE "AttributeError"

\* What `except Exception` catches: every exception of the engine but
\* SystemExit, which derives from BaseException.
Exceptions == {"Exception", "Timeout", "IndexError", "KeyError", "AssertionError",
               "AttributeError", "JSONDecodeError"}
except_Exception(raised) == raised \in Exceptions

Failure(message) == [NoResponse EXCEPT !.success = "False", !.message = message]
Escaped(raised) == [NoResponse EXCEPT !.success = "escaped", !.message = raised]

\* The queue-message body upstream holds for a uid: whether it parses, its
\* operation tag, and whether it has "status" and "result"."tx_hash".
UidOperations == {"mintToken", "migrate"}
UidContents == [parses : BOOLEAN, operation : UidOperations, complete : BOOLEAN]

\* get_mint_status and wait_for_mint_with_timeout, lines 347-362 and 378-393:
\* the same body around a different engine method.
uid_route(e, method, content) ==
    IF e \notin events THEN Failure("not configured")
    ELSE IF engine_call(method) = "AttributeError" THEN Failure("AttributeError")
    ELSE IF ~content.parses THEN Failure("JSONDecodeError")
    ELSE IF content.operation # "mintToken" THEN Failure("operation is not mintToken")
    ELSE IF ~content.complete THEN Escaped("KeyError")
    ELSE [NoResponse EXCEPT !.success = "True",
                            !.message = "Successfully retrieved mint transaction hash",
                            !.carries = {"uid", "mint_status", "tx_hash"}]

get_mint_status_route(e, content) == uid_route(e, "get_uid_status", content)

wait_for_mint_with_timeout_route(e, content) == uid_route(e, "wait_for_mint_tx_hash", content)

\* get_remaining_code_count, lines 175-184
get_remaining_code_count_route(e) ==
    IF e \notin events THEN Failure("not configured")
    ELSE IF engine_call("get_remaining_code_count") = "AttributeError"
         THEN Failure("AttributeError")
    ELSE [NoResponse EXCEPT !.success = "True", !.carries = {"count"},
                            !.count = Len(qr_codes)]

\* mint_poap and mint_poap_with_eligibility_timeout, lines 299-303 and 327-331:
\* an exception becomes a failure envelope, anything the engine returns is
\* passed on as it is.
mint_route(result) ==
    IF result = "SystemExit" THEN Escaped(result)
    ELSE IF except_Exception(result) THEN Failure(result)
    ELSE IF result = "success"
         THEN [NoResponse EXCEPT !.success = "True", !.message = "POAP successfully minted",
                                 !.carries = {"poap_api_response", "token_id", "uuid"}]
    ELSE IF result = "mint_failed"
         THEN [Failure(result) EXCEPT !.carries = {"poap_api_response"}]
    ELSE Failure(result)

\* get_collector_status, lines 265-275
get_collector_status_route(result) ==
    IF result = "SystemExit" THEN Escaped(result)
    ELSE IF except_Exception(result) THEN Failure(result)
    ELSE [NoResponse EXCEPT !.success = "True", !.message = result,
                            !.carries = {"address", "event_id", "collector_status"}]

Up == service = "up" /\ api_state = "ready"
TokenFresh == ~has_oauth_token_expired(now, access_token_expiry)
UpstreamPcs == {"m_coll", "m_secret", "m_claim", "s_coll"}

\* A request the route turns away before it reaches an engine: the event is
\* not configured (lines 289-290), or the address is not one (lines 291-297).
route_rejects(p) ==
    /\ Free(p)
    /\ \E why \in {"not configured", "invalid Ethereum address"} :
         call' = [call EXCEPT ![p] =
                     [NewCall("rejected", "done", "A", 0) EXCEPT !.response = Failure(why)]]
    /\ ncalls' = ncalls + 1
    /\ UNCHANGED <<qr_codes, collected, engineHistory, credVars, appVars>>

route_get_mint_status(p) ==
    /\ Free(p)
    /\ \E e \in EventIds, c \in UidContents :
         call' = [call EXCEPT ![p] =
                     [NewCall("getMintStatus", "done", "A", 0) EXCEPT
                         !.uid = c, !.response = get_mint_status_route(e, c)]]
    /\ ncalls' = ncalls + 1
    /\ UNCHANGED <<qr_codes, collected, engineHistory, credVars, appVars>>

route_wait_for_mint_with_timeout(p) ==
    /\ Free(p)
    /\ \E e \in EventIds, c \in UidContents :
         call' = [call EXCEPT ![p] =
                     [NewCall("waitForMintWithTimeout", "done", "A", 0) EXCEPT
                         !.uid = c,
                         !.response = wait_for_mint_with_timeout_route(e, c)]]
    /\ ncalls' = ncalls + 1
    /\ UNCHANGED <<qr_codes, collected, engineHistory, credVars, appVars>>

route_get_remaining_code_count(p) ==
    /\ Free(p)
    /\ \E e \in EventIds :
         call' = [call EXCEPT ![p] =
                     [NewCall("getRemainingCodeCount", "done", "A", 0) EXCEPT
                         !.response = get_remaining_code_count_route(e)]]
    /\ ncalls' = ncalls + 1
    /\ UNCHANGED <<qr_codes, collected, engineHistory, credVars, appVars>>

\* get and post inside an engine call, lines 91-92 and 105-106: the token has
\* expired, so it is exchanged before the request. A refused exchange is
\* sys.exit(1): SystemExit unwinds the engine call and the route.
api_refresh(p) ==
    /\ call[p].pc \in UpstreamPcs
    /\ ~TokenFresh
    /\ exchanges < MaxRequests
    /\ \E ok \in BOOLEAN, l \in Lifetimes : update_oauth_token(ok, l, "get")
    /\ call' = IF api_state' = "exited"
               THEN [call EXCEPT ![p] = [@ EXCEPT !.pc = "done", !.result = "SystemExit",
                                                  !.response = mint_route("SystemExit")]]
               ELSE call
    /\ service' = IF api_state' = "exited" THEN "exited" ELSE service
    /\ UNCHANGED <<qr_codes, collected, ncalls, engineHistory, now, requests, ticks, last_call,
                   events, config, upstream_event, next_event, upstream_log>>

\* The route hands the engine's outcome to the caller.
route_returns(p) ==
    /\ call[p].pc = "done"
    /\ call[p].op \in {"mint", "wait", "status"}
    /\ call[p].response = NoResponse
    /\ call' = [call EXCEPT ![p].response =
                   IF call[p].op = "status" THEN get_collector_status_route(call[p].result)
                   ELSE mint_route(call[p].result)]
    /\ UNCHANGED <<qr_codes, collected, ncalls, engineHistory, credVars, appVars>>

RouteInit ==
    /\ \E listing \in Listings : qr_codes = update_unclaimed_qr_codes(listing)
    /\ collected \in SUBSET Addrs
    /\ call = [p \in Callers |-> Idle]
    /\ ncalls = 0
    /\ handed = [c \in Codes |-> 0]
    /\ secretReqs = [c \in Codes |-> 0]
    /\ claimReqs = [c \in Codes |-> 0]
    /\ succeeded = {}
    /\ now = 0
    /\ api_state = "ready"
    /\ access_token = -1
    /\ access_token_expiry \in RouteExpiries
    /\ oauth_file = NoFile
    /\ issued = NotIssued
    /\ exchanges = 0
    /\ requests = 0
    /\ ticks = 0
    /\ last_call = NoCall
    /\ auth_answer = "none"
    /\ AppIdle

RouteNext ==
    \/ \E p \in RouteCallers : Up /\ start_mint_poap(p)
    \/ \E p \in RouteCallers : Up /\ start_wait_to_be_eligible_and_mint_poap(p, RouteTimeouts)
    \/ \E p \in RouteCallers : Up /\ start_get_collector_status(p)
    \/ \E p \in RouteCallers : Up /\ route_rejects(p)
    \/ \E p \in RouteCallers : Up /\ route_get_mint_status(p)
    \/ \E p \in RouteCallers : Up /\ route_wait_for_mint_with_timeout(p)
    \/ \E p \in RouteCallers : Up /\ route_get_remaining_code_count(p)
    \/ \E p \in RouteCallers : Up /\ mint_is_eligible(p)
    \/ \E p \in RouteCallers : Up /\ TokenFresh /\ mint_has_collected(p)
    \/ \E p \in RouteCallers : Up /\ mint_check_pool(p)
    \/ \E p \in RouteCallers : Up /\ mint_pop(p)
    \/ \E p \in RouteCallers : Up /\ TokenFresh /\ mint_claim_qr_get_secret(p, SpecSecretResponses)
    \/ \E p \in RouteCallers : Up /\ TokenFresh /\ mint_claim_qr(p)
    \/ \E p \in RouteCallers : Up /\ wait_is_eligible(p, SpecEligDurs)
    \/ \E p \in RouteCallers : Up /\ wait_sleep(p)
    \/ \E p \in RouteCallers : Up /\ TokenFresh /\ status_has_collected(p)
    \/ \E p \in RouteCallers : Up /\ status_is_eligible(p)
    \/ \E p \in RouteCallers : Up /\ api_refresh(p)
    \/ \E p \in RouteCallers : Up /\ route_returns(p)
    \/ \E a \in Addrs : upstream_collect(a)

RouteSpec == RouteInit /\ [][RouteNext]_vars
\* ----------------------------------------------------------------- claims
Range(l) == {l[i] : i \in 1..Len(l)}

\* l is m with some elements left out, the order kept.
RECURSIVE IsSubSeq(_, _)
IsSubSeq(l, m) ==
    IF l = <<>> THEN TRUE
    ELSE IF m = <<>> THEN FALSE
    ELSE IF Head(l) = Head(m) THEN IsSubSeq(Tail(l), Tail(m))
    ELSE IsSubSeq(l, Tail(m))

\* A mint_poap run: called directly, or from the polling loop.
InMint(p) == call[p].op \in {"mint", "wait"} /\ call[p].mintCalls > 0
Finished(p) == call[p].pc = "done"
TookCode(p) == call[p].qr_code # NoCode
NoClaimCalls(p) == call[p].secretSent = 0 /\ call[p].claimSent = 0

\* C1: no code is handed to two calls: each code is returned by pop() at most
\* once, and is sent to the claim-secret fetch and to the claim submission at
\* most once, over all calls and interleavings.
C1_NoCodeHandedTwice ==
    \A c \in Codes : handed[c] <= 1 /\ secretReqs[c] <= 1 /\ claimReqs[c] <= 1

\* Two calls hold a code each at the same time.
C1_Witness ==
    \E p, q \in Callers :
        /\ p # q
        /\ call[p].pc = "m_claim" /\ call[q].pc = "m_claim"
        /\ call[p].qr_code # call[q].qr_code

\* C2: N concurrent mint_poap calls for N distinct eligible, uncollected
\* addresses against a pool of K < N codes: exactly K take a code, every other
\* call returns the pool-exhausted failure, and the pool ends empty.
PoolAtConstruction == Len(qr_codes) + Cardinality({c \in Codes : handed[c] > 0})

C2_ExactlyKTakeRestExhausted ==
    ( /\ ncalls = Cardinality(Callers)
      /\ \A p \in Callers :
            /\ call[p].op = "mint" /\ Finished(p)
            /\ call[p].elig = "true" /\ call[p].scan = 404
      /\ \A p, q \in Callers : p # q => call[p].addr # call[q].addr
      /\ PoolAtConstruction < Cardinality(Callers) )
    => /\ Cardinality({p \in Callers : TookCode(p)}) = PoolAtConstruction
       /\ \A p \in Callers : ~TookCode(p) => call[p].result = "exhausted"
       /\ qr_codes = <<>>

\* C3: the pool only ever shrinks, and a code that pop() has returned is never
\* in the pool again, whatever became of its claim.
C3_PoolOnlyShrinks ==
    [][ /\ IsSubSeq(qr_codes', qr_codes)
        /\ \A c \in Codes : handed'[c] > 0 => c \notin Range(qr_codes') ]_vars

\* A call lost its code to a failed claim while codes remain in the pool.
C3_Witness ==
    \E p \in Callers :
        /\ Finished(p) /\ TookCode(p)
        /\ call[p].result \in {"mint_failed", "AssertionError", "KeyError"}
        /\ qr_codes # <<>>
        /\ call[p].qr_code \notin Range(qr_codes)

\* C4: a mint_poap whose is_eligible answered false ends with the ineligible
\* failure, takes no code from the pool and sends upstream neither a
\* claim-secret fetch nor a claim submission.
C4_IneligibleTouchesNothing ==
    \A p \in Callers :
        (InMint(p) /\ call[p].elig = "false")
        => /\ Finished(p) /\ call[p].result = "ineligible"
           /\ ~TookCode(p) /\ NoClaimCalls(p)
           /\ call[p].poolSeen = "none"

\* An ineligible address was turned away while the pool held codes.
C4_Witness ==
    \E p \in Callers :
        /\ InMint(p) /\ call[p].elig = "false" /\ call[p].result = "ineligible"
        /\ qr_codes # <<>>

\* C5: a mint_poap for an eligible address that upstream reports as collected
\* (scan answers 200) ends with the already-collected failure, takes no code
\* and makes no claim call; so a mint_poap(A) started after a successful
\* mint_poap(A) that upstream reflects consumes no code.
C5_CollectedTouchesNothing ==
    \A p \in Callers :
        /\ (InMint(p) /\ call[p].scan = 200)
           => /\ Finished(p) /\ call[p].result = "collected"
              /\ ~TookCode(p) /\ NoClaimCalls(p)
        /\ (InMint(p) /\ call[p].afterSuccess) => (~TookCode(p) /\ NoClaimCalls(p))

\* A second mint for an address whose first mint succeeded and is reflected
\* upstream was turned away while the pool held codes.
C5_Witness ==
    \E p \in Callers :
        /\ InMint(p) /\ call[p].afterSuccess /\ call[p].elig = "true"
        /\ call[p].result = "collected"
        /\ qr_codes # <<>>

\* C6: each mint_poap takes at most one code, and takes one if and only if it
\* found the address eligible, found it not collected, and found the pool
\* non-empty; when both claim steps then succeed it returns success.
C6_TakesOneIffGuardsPass ==
    \A p \in Callers :
        (InMint(p) /\ Finished(p))
        => /\ TookCode(p) <=> ( /\ call[p].elig = "true"
                                /\ call[p].scan = 404
                                /\ call[p].poolSeen = "nonempty" )
           /\ (TookCode(p) => handed[call[p].qr_code] = 1)
           /\ (call[p].claimStatus = 200 /\ call[p].result # "KeyError")
              => call[p].result = "success"

\* C7: once the pool is empty it stays empty, and a mint_poap started on an
\* empty pool for an eligible, uncollected address ends with the
\* pool-exhausted failure: no claim call, no exception.
ExhaustedAnswer(p) ==
    (InMint(p) /\ call[p].emptyAtStart /\ call[p].elig = "true" /\ call[p].scan = 404)
    => /\ call[p].pc \in {"m_pool", "done"}
       /\ Finished(p) => call[p].result = "exhausted"
       /\ ~TookCode(p) /\ NoClaimCalls(p)

C7_EmptyStaysEmptyAndAnswersExhausted ==
    [][ /\ qr_codes = <<>> => qr_codes' = <<>>
        /\ \A p \in Callers : ExhaustedAnswer(p)' ]_vars

\* The pool was emptied by mints, and a later mint was told so.
C7_Witness ==
    \E p \in Callers :
        /\ InMint(p) /\ call[p].emptyAtStart /\ call[p].result = "exhausted"
        /\ \E c \in Codes : handed[c] > 0

\* C8: get_collector_status returns has_collected when has_collected is true,
\* without evaluating is_eligible; is_eligible when has_collected is false and
\* is_eligible true; is_not_eligible when both are false; and raises when
\* either query fails.
C8_StatusFollowsQueries ==
    \A p \in Callers :
        (call[p].op = "status" /\ Finished(p))
        => /\ has_collected(call[p].scan) = "true"
              => (call[p].result = "has_collected" /\ call[p].eligEvals = 0)
           /\ (has_collected(call[p].scan) = "false" /\ call[p].elig = "true")
              => call[p].result = "is_eligible"
           /\ (has_collected(call[p].scan) = "false" /\ call[p].elig = "false")
              => call[p].result = "is_not_eligible"
           /\ (has_collected(call[p].scan) = "raise" \/ call[p].elig = "raise")
              => call[p].result = "Exception"
           /\ call[p].result \in {"has_collected", "is_eligible", "is_not_eligible", "Exception"}

\* Every answer of get_collector_status has been given.
C8_Witness ==
    \E p, q \in Callers :
        /\ call[p].op = "status" /\ call[p].result = "has_collected"
        /\ call[q].op = "status" /\ call[q].result = "is_not_eligible"

\* C9: a polling mint whose eligibility checks all answer false ends with the
\* timeout failure, not before timeout has elapsed and not later than timeout
\* plus one sleep plus the duration of the last check; it never enters
\* mint_poap, and while it runs its clock stays inside that bound.
NeverEligible(p) == call[p].op = "wait" /\ call[p].mintCalls = 0 /\ call[p].result # "Exception"

C9_TimeoutWithinBounds ==
    \A p \in Callers :
        NeverEligible(p)
        => /\ Finished(p) => call[p].result = "Timeout"
           /\ call[p].result = "Timeout"
              => /\ call[p].elapsed >= call[p].timeout
                 /\ call[p].elapsed <= call[p].timeout + SleepInterval + call[p].lastDur
           /\ call[p].pc = "w_sleep" => call[p].elapsed <= call[p].timeout
           /\ call[p].pc = "w_elig" => call[p].elapsed <= call[p].timeout + SleepInterval
           /\ ~TookCode(p) /\ NoClaimCalls(p) /\ call[p].elig = "none"

\* A polling mint timed out exactly at the upper bound.
C9_Witness ==
    \E p \in Callers :
        /\ NeverEligible(p) /\ call[p].result = "Timeout"
        /\ call[p].timeout > 0
        /\ call[p].lastDur > 0
        /\ call[p].elapsed = call[p].timeout + SleepInterval + call[p].lastDur

\* C10 as stated: a call on an expired token triggers exactly one exchange, and
\* a call made before the cached token's declared lifetime has ended triggers
\* none, whatever lifetime the provider declared.
Exchanged(i) == i.by \in {"__init__", "get", "post"}

C10_NoExchangeWithinLifetime ==
    last_call.made
    => /\ last_call.at >= last_call.expiry => last_call.exchanges = 1
       /\ ( /\ Exchanged(last_call.issued)
            /\ last_call.at < last_call.issued.at + last_call.issued.expires_in )
          => last_call.exchanges = 0

\* C10 amended: a call on an expired token triggers exactly one exchange; a
\* call on a token obtained by an exchange triggers none exactly when it is
\* made before issuance time + declared lifetime - 600 s, so with a declared
\* lifetime of 600 s or less every call triggers one.
C10_NoExchangeBeforeMargin ==
    last_call.made
    => /\ last_call.exchanges \in {0, 1}
       /\ last_call.at >= last_call.expiry => last_call.exchanges = 1
       /\ Exchanged(last_call.issued)
          => ( last_call.exchanges = 0
               <=> last_call.at < last_call.issued.at + last_call.issued.expires_in
                                  - SafetyMargin )

\* A get or post found the token expired and exchanged it, and a later call
\* at a later time used the new token without an exchange.
C10_Witness ==
    /\ last_call.made /\ last_call.exchanges = 0
    /\ last_call.issued.by \in {"get", "post"}
    /\ last_call.at > last_call.issued.at

\* ------------------------------------------------- startup_event of main.py
\* What constructing an event's engine meets upstream:
\*   "ok"              event/validate says valid, the codes are listed, the RPC node answers
\*   "invalid"         event/validate says the event is not valid
\*   "validate_error"  the event/validate call fails, or its body cannot be read
\*   "list_error"      valid, but the qr-codes call fails, or its body cannot be read
\*   "rpc_down"        valid and listed, but web3.isConnected() is false
CtorOutcomes == {"ok", "invalid", "validate_error", "list_error", "rpc_down"}

\* config.yaml: up to MaxEvents event ids, each once, among them ids that
\* startup_event does not accept (0).
ConfigIds == AppEventIds \cup {0}
Configs ==
    UNION { { c \in [1..n -> ConfigIds] : \A i, j \in 1..n : i # j => c[i] # c[j] } :
            n \in 0..MaxEvents }

\* Variant: the answer of event/validate is not asserted.
DevconEvent_init_unasserted(e, outcome) ==
    IF outcome = "validate_error"
    THEN [built |-> FALSE, raised |-> "Exception", requests |-> <<[event |-> e, route |-> "event/validate"]>>]
    ELSE [built |-> outcome \in {"ok", "invalid"},
          raised |-> IF outcome \in {"ok", "invalid"} THEN "none" ELSE "Exception",
          requests |-> <<[event |-> e, route |-> "event/validate"],
                         [event |-> e, route |-> "qr-codes"]>>]

\* DevconEvent.__init__ (main.py 86-100) over EventABC.__init__ (wen_poap.py
\* 121-128): assert is_valid_event(), then update_unclaimed_qr_codes(), then
\* the RPC connection test. The requests it sends upstream, in order, whether
\* the object is built, and what is raised when it is not.
DevconEvent_init(e, outcome) ==
    IF outcome = "validate_error"
    THEN [built |-> FALSE, raised |-> "Exception", requests |-> <<[event |-> e, route |-> "event/validate"]>>]
    ELSE IF outcome = "invalid"
    THEN [built |-> FALSE, raised |-> "AssertionError",
          requests |-> <<[event |-> e, route |-> "event/validate"]>>]
    ELSE [built |-> outcome = "ok",
          raised |-> IF outcome = "ok" THEN "none" ELSE "Exception",
          requests |-> <<[event |-> e, route |-> "event/validate"],
                         [event |-> e, route |-> "qr-codes"]>>]

\* One turn of the loop of lines 137-142. Nothing catches what a constructor
\* raises: it leaves startup_event, and the application does not start.
startup_construct ==
    /\ service = "starting"
    /\ api_state = "ready"
    /\ next_event <= Len(config)
    /\ LET e == config[next_event]
           made == DevconEvent_init(e, upstream_event[e])
       IN IF e \notin AppEventIds
          THEN /\ next_event' = next_event + 1
               /\ UNCHANGED <<events, service, upstream_log>>
          ELSE /\ upstream_log' = upstream_log \o made.requests
               /\ IF made.built
                  THEN /\ events' = events \cup {e}
                       /\ next_event' = next_event + 1
                       /\ UNCHANGED service
                  ELSE /\ service' = "failed"
                       /\ UNCHANGED <<events, next_event>>
    /\ UNCHANGED <<engineVars, credVars, config, upstream_event>>

\* The loop has gone through config: the application starts serving.
startup_done ==
    /\ service = "starting"
    /\ api_state = "ready"
    /\ next_event > Len(config)
    /\ service' = "up"
    /\ UNCHANGED <<engineVars, credVars, events, config, upstream_event, next_event, upstream_log>>

\* A request for an engine operation on event e, lines 289-300: it reaches an
\* engine only when e is in the registry.
route_request ==
    /\ service = "up"
    /\ ncalls < MaxCalls
    /\ ncalls' = ncalls + 1
    /\ \E e \in ConfigIds :
         upstream_log' = IF e \in events
                         THEN Append(upstream_log, [event |-> e, route |-> "engine"])
                         ELSE upstream_log
    /\ UNCHANGED <<qr_codes, collected, call, engineHistory, credVars,
                   events, service, config, upstream_event, next_event>>

StartupInit ==
    /\ EngineIdle
    /\ auth_answer = "none"
    /\ now = 0
    /\ api_state = "new"
    /\ access_token = 0
    /\ access_token_expiry = 0
    /\ oauth_file \in FileRecords
    /\ issued = NotIssued
    /\ exchanges = 0
    /\ requests = 0
    /\ ticks = 0
    /\ last_call = NoCall
    /\ events = {}
    /\ service = "starting"
    /\ config \in Configs
    /\ upstream_event \in [AppEventIds -> CtorOutcomes]
    /\ next_event = 1
    /\ upstream_log = <<>>

StartupNext ==
    \/ PoapApiWrapper_init
    \/ startup_construct
    \/ startup_done
    \/ route_request

StartupSpec == StartupInit /\ [][StartupNext]_vars

\* ------------------------------------------------ claims about the routes
Returned(p) == Finished(p) /\ call[p].response # NoResponse
Configured(p) == call[p].response.message # "not configured"

\* C11: the get-mint-status route, for a uid whose upstream operation tag is
\* not "mintToken", returns a failure that reports the tag mismatch and carries
\* neither the upstream status nor the transaction hash; for a uid whose tag is
\* "mintToken" it returns success carrying both.
C11_StatusRouteChecksOperationTag ==
    \A p \in Callers :
        ( /\ call[p].op = "getMintStatus" /\ Returned(p) /\ Configured(p)
          /\ call[p].uid.parses /\ call[p].uid.complete )
        => IF call[p].uid.operation # "mintToken"
           THEN /\ call[p].response.success = "False"
                /\ call[p].response.message = "operation is not mintToken"
                /\ call[p].response.carries \cap {"mint_status", "tx_hash"} = {}
           ELSE /\ call[p].response.success = "True"
                /\ {"mint_status", "tx_hash"} \subseteq call[p].response.carries

\* C12: when the construction of one configured event fails at startup, every
\* other configured event whose own construction would succeed is still
\* constructed and registered, and the service comes up, whatever the order
\* of the events in the configuration.
StartupEnded == service \in {"up", "failed"}
Accepted == Range(config) \cap AppEventIds

C12_ConstructionFailuresIsolated ==
    StartupEnded
    => \A e \in Accepted :
          upstream_event[e] = "ok" => (e \in events /\ service = "up")

\* C19: constructing an engine calls event/validate before the qr-codes
\* listing; when validation says the event is invalid, or the validation call
\* fails, the qr-codes request is never sent, the event is not registered, and
\* no engine operation ever runs for it: only validated events are registered.
Sent(e, route) == \E i \in 1..Len(upstream_log) : upstream_log[i] = [event |-> e, route |-> route]
SentBefore(e, first, then) ==
    \A i \in 1..Len(upstream_log) :
        upstream_log[i] = [event |-> e, route |-> then]
        => \E j \in 1..(i - 1) : upstream_log[j] = [event |-> e, route |-> first]

C19_ValidatedBeforeListed ==
    \A e \in AppEventIds :
        /\ SentBefore(e, "event/validate", "qr-codes")
        /\ SentBefore(e, "qr-codes", "engine")
        /\ upstream_event[e] \in {"invalid", "validate_error"}
           => /\ ~Sent(e, "qr-codes")
              /\ e \notin events
              /\ ~Sent(e, "engine")
        /\ e \in events => (Sent(e, "event/validate") /\ upstream_event[e] = "ok")

\* An event was refused by validation after another had been registered, and
\* only its validation request went upstream.
C19_Witness ==
    \E e \in AppEventIds :
        /\ upstream_event[e] = "invalid"
        /\ Sent(e, "event/validate")
        /\ service = "failed"
        /\ events # {}

\* ------------------------------------------------------------------------
\* C13: every failure met while serving a request for a configured event
\* (ineligible, collected, exhausted, upstream error, protocol mismatch,
\* timeout, failed token refresh, malformed body) reaches the caller as an
\* envelope with success false and a message; no request ends the service
\* process or leaves the route as an unhandled fault.
FailureResults ==
    Exceptions \cup {"SystemExit", "ineligible", "collected", "exhausted", "mint_failed"}

C13_FailuresBecomeEnvelopes ==
    /\ service = "up"
    /\ api_state = "ready"
    /\ \A p \in Callers :
          Returned(p)
          => /\ call[p].response.success \in {"True", "False"}
             /\ call[p].result \in FailureResults
                => /\ call[p].response.success = "False"
                   /\ call[p].response.message # "none"

\* ------------------------------------------------------------------------
\* C14: a mint_poap that has removed a code ends as a mint failure when the
\* claim-secret fetch or the claim submission answers with a status outside
\* 2xx, and as success, carrying the token id and the uid of the response,
\* when the claim submission answers with any 2xx status.
Is2xx(status) == status \in 200..299

C14_UpstreamStatusDecidesOutcome ==
    \A p \in Callers :
        (InMint(p) /\ Finished(p) /\ TookCode(p))
        => /\ (call[p].secretSent > 0 /\ ~Is2xx(call[p].secret.status))
              => (call[p].result = "mint_failed" /\ call[p].claimSent = 0)
           /\ (call[p].claimSent > 0 /\ ~Is2xx(call[p].claimStatus))
              => call[p].result = "mint_failed"
           /\ (call[p].claimSent > 0 /\ Is2xx(call[p].claimStatus) /\ call[p].result # "KeyError")
              => call[p].result = "success"

\* ------------------------------------------------------------------------
\* C15: while one caller sleeps between the eligibility polls of
\* wait_to_be_eligible_and_mint_poap, another caller's operation on the same
\* service can start, and once started can go on, before the polling call
\* has finished.
Sleeping(p) == call[p].op = "wait" /\ call[p].pc = "w_sleep"
Running(q) == call[q].pc \notin {"idle", "done"}

C15_OthersRunWhilePolling ==
    \A p \in Callers :
        Sleeping(p)
        => \A q \in Callers \ {p} :
              /\ (~Running(q) /\ ncalls < MaxCalls)
                 => ENABLED (SeqNext /\ Running(q)' /\ call'[p] = call[p])
              /\ Running(q)
                 => ENABLED (SeqNext /\ call'[q] # call[q] /\ call'[p] = call[p])

\* ------------------------------------------------------------------------
\* C16: when the auth endpoint refuses a token exchange the refresh is fatal:
\* the process stops, the cached token, its expiry and the saved record stay
\* as they were, and the request that asked for the refresh is never sent.
C16_RefusedExchangeIsFatal ==
    [][ /\ (exchanges' # exchanges /\ auth_answer' = "denied")
           => /\ api_state' = "exited"
              /\ access_token' = access_token
              /\ access_token_expiry' = access_token_expiry
              /\ oauth_file' = oauth_file
              /\ requests' # requests => (last_call'.made /\ ~last_call'.sent)
        /\ (requests' # requests /\ ~last_call'.sent)
           => (exchanges' # exchanges /\ auth_answer' = "denied")
        /\ api_state = "exited"
           => UNCHANGED <<api_state, access_token, access_token_expiry, oauth_file,
                          exchanges, requests, last_call>> ]_vars

\* A get or post found the token expired, the exchange was refused, and the
\* process stopped with the request unsent and the saved record in place.
C16_Witness ==
    /\ auth_answer = "denied"
    /\ api_state = "exited"
    /\ last_call.made /\ last_call.exchanges = 1 /\ ~last_call.sent
    /\ oauth_file.ok /\ oauth_file.token = access_token

\* ------------------------------------------------------------------------
\* C17: when the on-chain contribution read fails during the eligibility
\* check of mint_poap, is_eligible raises and mint_poap ends with that error,
\* not with the ineligible failure; no code leaves the pool and no claim call
\* goes upstream.
ReadFailedInMint(p) ==
    InMint(p) /\ call[p].read.state = "failed" /\ call[p].pc # "m_elig"

C17_FailedReadIsAnError ==
    \A p \in Callers :
        /\ ReadFailedInMint(p)
           => /\ call[p].elig = "raise"
              /\ Finished(p) /\ call[p].result = "Exception"
              /\ ~TookCode(p) /\ NoClaimCalls(p)
              /\ call[p].poolSeen = "none" /\ call[p].scan = 0
        /\ (InMint(p) /\ call[p].result = "ineligible")
           => (call[p].read.state = "read" /\ call[p].read.amount < min_nct_contribution)

\* A mint met a failed read while the pool held codes, and left them there.
C17_Witness ==
    \E p \in Callers :
        /\ ReadFailedInMint(p) /\ call[p].result = "Exception"
        /\ qr_codes # <<>>
        /\ \A c \in Codes : handed[c] = 0

\* ------------------------------------------------------------------------
\* C18: for a configured event the getRemainingCodeCount route returns
\* success with a count equal to the number of codes now in the event's pool,
\* after any sequence of mint_poap calls.
C18_CountIsPoolSize ==
    \A p \in Callers :
        (call[p].op = "getRemainingCodeCount" /\ Returned(p) /\ Configured(p))
        => /\ call[p].response.success = "True"
           /\ call[p].response.count = Len(qr_codes)

\* ------------------------------------------------------------------------
\* C20: when the claim-secret response for the removed code names another
\* event than the engine's, or reports the code as claimed, mint_poap sends no
\* claim submission for that code, ends as a failure, and the code stays out
\* of the pool.
SecretRefused(p) ==
    /\ InMint(p) /\ call[p].secretSent > 0
    /\ call[p].secret.claimed \/ call[p].secret.event # event_id

C20_MismatchStopsTheClaim ==
    \A p \in Callers :
        SecretRefused(p)
        => /\ Finished(p) /\ call[p].result = "AssertionError"
           /\ call[p].claimSent = 0
           /\ claimReqs[call[p].qr_code] = 0
           /\ call[p].qr_code \notin Range(qr_codes)

\* A response naming another event stopped a mint while codes remained.
C20_Witness ==
    \E p \in Callers :
        /\ SecretRefused(p) /\ ~call[p].secret.claimed
        /\ call[p].secret.event = other_event_id
        /\ call[p].result = "AssertionError"
        /\ qr_codes # <<>>

\* ------------------------------------------------------------------------
\* C21: constructing the API client exchanges a token if and only if the
\* saved record cannot be read, or the loaded token is absent or has reached
\* its expiry; an unexpired saved record is reused with no exchange, and a
\* record that cannot be read never aborts construction: it goes on to the
\* exchange.
MustExchange(record, t) == ~record.ok \/ record.token = 0 \/ t >= record.expiry

C21_ExchangeIffNoUsableRecord ==
    [][ (api_state = "new" /\ api_state' # "new")
        => /\ exchanges' # exchanges <=> MustExchange(oauth_file, now)
           /\ exchanges' \in {exchanges, exchanges + 1}
           /\ ~MustExchange(oauth_file, now)
              => /\ api_state' = "ready"
                 /\ access_token' = oauth_file.token
                 /\ access_token_expiry' = oauth_file.expiry
                 /\ oauth_file' = oauth_file
           /\ ~oauth_file.ok
              => /\ auth_answer' \in {"ok", "denied"}
                 /\ auth_answer' = "ok" => (api_state' = "ready" /\ oauth_file'.ok) ]_vars

\* An unexpired saved record was reused without an exchange.
C21_Witness ==
    /\ api_state = "ready"
    /\ issued.by = "file"
    /\ exchanges = 0
    /\ oauth_file.ok /\ access_token = oauth_file.token
    /\ now < access_token_expiry

\* ------------------------------------------------------------------------
\* C22: a polling call enters mint_poap at most once, and only in the step
\* right after one of its own eligibility checks returned true; what it
\* returns is then what mint_poap returned. It reports a timeout only in an
\* iteration whose eligibility check returned false, without having minted,
\* and it never ends without at least one eligibility check, a timeout of 0
\* included.
MintPcs == {"m_elig", "m_coll", "m_pool", "m_pop", "m_secret", "m_claim"}

C22_PollingMintsOnceAfterTrue ==
    [][ \A p \in Callers :
          (call[p].op = "wait" /\ call'[p] # call[p] /\ call[p].pc # "done")
          => /\ call'[p].op = "wait"
             /\ call'[p].mintCalls <= 1
             /\ call'[p].mintCalls >= call[p].mintCalls
             /\ call'[p].mintCalls > call[p].mintCalls
                => /\ call[p].pc = "w_elig" /\ call'[p].pc = "m_elig"
                   /\ DevconEvent_is_eligible(call'[p].read) = "true"
             /\ (call[p].pc = "w_elig" /\ call'[p].pc = "m_elig")
                => call'[p].mintCalls = 1
             /\ call'[p].result = "Timeout"
                => /\ call[p].pc = "w_elig"
                   /\ DevconEvent_is_eligible(call'[p].read) = "false"
                   /\ call'[p].mintCalls = 0
             /\ call'[p].pc = "done"
                => /\ call'[p].eligEvals >= 1
                   /\ call'[p].mintCalls = 1 <=> call[p].pc \in MintPcs
                   /\ call[p].pc \notin MintPcs => call[p].pc = "w_elig" ]_vars

\* A polling call went through an eligibility check that returned true,
\* minted once and returned the mint's success.
C22_Witness ==
    \E p \in Callers :
        /\ call[p].op = "wait" /\ call[p].pc = "done"
        /\ call[p].mintCalls = 1
        /\ call[p].result = "success"
        /\ call[p].eligEvals >= 1

\* ------------------------------------------------------------------------
\* C23: mint_poap calls that overlap for one address, eligible and not yet
\* collected, take at most one code from the pool between them and send at
\* most one claim submission for that address: no two of them hold a code at
\* the same time, and no two of them stand at the claim submission together.
SameAddressOverlap(p, q) ==
    /\ p # q
    /\ InMint(p) /\ InMint(q)
    /\ Running(p) /\ Running(q)
    /\ call[p].addr = call[q].addr
    /\ call[p].addr \notin collected
    /\ call[p].elig = "true" /\ call[q].elig = "true"

C23_OneCodePerAddress ==
    \A p, q \in Callers :
        SameAddressOverlap(p, q)
        => /\ ~(TookCode(p) /\ TookCode(q))
           /\ ~(call[p].pc = "m_claim" /\ call[q].pc = "m_claim")

\* ------------------------------------------------------------------------
\* C24: mint_poap and get_collector_status classify an address the same way.
\* When mint_poap returns the ineligible failure, get_collector_status, asked
\* at that moment with the same contribution read, would answer "not
\* eligible"; and when get_collector_status would answer "has collected",
\* mint_poap returns the already-collected failure, also for an address that
\* has collected and is below the minimum contribution now.

\* get_collector_status, lines 154-161, for one scan answer and one read
get_collector_status(scan, read) ==
    LET to == status_after_has_collected(has_collected(scan)) IN
    IF to.pc = "done" THEN to.result
    ELSE status_after_is_eligible(DevconEvent_is_eligible(read)).result

\* What get_collector_status can answer for an address now, upstream answering.
StatusNow(addr, read) ==
    {get_collector_status(s, read) : s \in ScanAnswers(addr) \ {500}}

MintReturns(p) ==
    /\ InMint(p) /\ call[p].pc \in {"m_elig", "m_coll"}
    /\ call'[p].pc = "done"
    /\ call'[p].result \notin Exceptions

C24_MintAgreesWithStatus ==
    [][ \A p \in Callers :
          MintReturns(p)
          => /\ call'[p].result = "ineligible"
                => StatusNow(call'[p].addr, call'[p].read) = {"is_not_eligible"}
             /\ StatusNow(call'[p].addr, call'[p].read) = {"has_collected"}
                => call'[p].result = "collected" ]_vars
====
